---- MODULE Spec2Model ----
(***************************************************************************)
(* Model of the economics engine of src/temp.py (class RideShareEconomics) *)
(* and of the script that calls it.                                        *)
(*                                                                         *)
(* Every amount in the source is a Python float.  A float is modelled as a *)
(* binary floating-point number [m, e] of value m * 2^e with a significand *)
(* of MantBits bits, and every arithmetic operation rounds its exact       *)
(* result to the nearest such number, ties to even, as IEEE-754 does.      *)
(* The source's doubles have 53 significand bits; the model keeps the      *)
(* arithmetic and shortens the significand.  Exponents are unbounded       *)
(* (no overflow, no underflow) and the two zeros are not distinguished.    *)
(***************************************************************************)
EXTENDS Integers, Sequences, FiniteSets, TLC

(* Significand width of the modelled floats. *)
MantBits == 11

(* Largest driver count of a parameter bundle. *)
MaxDrivers == 2

---------------------------------------------------------------------------
(* Binary floating point, round to nearest, ties to even.                  *)

(* The one element of a singleton set.  Only({f(x) : x \in {e}}) is f(e)   *)
(* with e evaluated once.                                                  *)
Only(S) == CHOOSE y \in S : TRUE

Pow2(n) == 2 ^ n

Abs(x) == IF x < 0 THEN -x ELSE x

(* Number of bits of a natural number: 0 for 0, else floor(log2 n) + 1. *)
BitLen(n) == CHOOSE k \in 0..30 : n < Pow2(k) /\ (k = 0 \/ Pow2(k - 1) <= n)

Zero == [m |-> 0, e |-> 0]

(* float('inf') *)
Inf == [m |-> 0, e |-> 1]

(* The float of sign sg nearest to a * 2^x, for a natural a > 0 of bits bits. *)
RoundBits(sg, a, x, bits) ==
    IF bits <= MantBits
    THEN [m |-> sg * a * Pow2(MantBits - bits), e |-> x - (MantBits - bits)]
    ELSE LET k    == bits - MantBits
             q    == a \div Pow2(k)
             r    == a % Pow2(k)
             half == Pow2(k - 1)
             q2   == IF (r > half) \/ (r = half /\ q % 2 = 1) THEN q + 1 ELSE q
         IN  IF q2 = Pow2(MantBits)
             THEN [m |-> sg * Pow2(MantBits - 1), e |-> x + k + 1]
             ELSE [m |-> sg * q2, e |-> x + k]

(* The float nearest to n * 2^x, for an integer n. *)
Round(n, x) ==
    Only({ IF v = 0 THEN Zero
           ELSE Only({ RoundBits(IF v < 0 THEN -1 ELSE 1, Abs(v), w, bits) :
                       bits \in {BitLen(Abs(v))} }) :
           v \in {n}, w \in {x} })

(* An int operand of a float operation: converted to the nearest float. *)
FromInt(n) == Round(n, 0)

FNeg(a) == Only({ IF v.m = 0 THEN Zero ELSE [m |-> -v.m, e |-> v.e] : v \in {a} })

(* hi + lo for floats hi, lo # 0 with hi.e >= lo.e *)
AddOrdered(hi, lo) ==
    IF hi.e - lo.e >= MantBits + 2 THEN hi
    ELSE Round(hi.m * Pow2(hi.e - lo.e) + lo.m, lo.e)

FAdd(a, b) ==
    Only({ IF v.m = 0 THEN w
           ELSE IF w.m = 0 THEN v
           ELSE IF v.e >= w.e THEN AddOrdered(v, w) ELSE AddOrdered(w, v) :
           v \in {a}, w \in {b} })

FSub(a, b) == FAdd(a, FNeg(b))

FMul(a, b) == Only({ Round(v.m * w.m, v.e + w.e) : v \in {a}, w \in {b} })

(* v / w for floats v # 0, w # 0: MantBits + 2 quotient bits and a sticky *)
(* bit decide the rounding.                                               *)
DivNonZero(v, w) ==
    LET sg  == IF (v.m < 0) = (w.m < 0) THEN 1 ELSE -1
        num == Abs(v.m) * Pow2(MantBits + 2)
        den == Abs(w.m)
        st  == IF num % den = 0 THEN 0 ELSE 1
    IN  Round(sg * (2 * (num \div den) + st), v.e - w.e - (MantBits + 2) - 1)

(* a / b for b # 0 *)
FDiv(a, b) ==
    Only({ IF v.m = 0 THEN Zero ELSE DivNonZero(v, w) : v \in {a}, w \in {b} })

(* Rounding keeps the sign of an exact difference, so the sign of a - b *)
(* orders a and b.                                                      *)
FLt(a, b) == FSub(a, b).m < 0
FLe(a, b) == FSub(a, b).m <= 0
FPos(a) == a.m > 0

(* np.ceil followed by int(): the least integer >= a. *)
Ceil(a) ==
    Only({ IF v.e >= 0 THEN v.m * Pow2(v.e)
           ELSE IF -v.e >= MantBits THEN (IF v.m > 0 THEN 1 ELSE 0)
           ELSE -((-v.m) \div Pow2(-v.e)) :
           v \in {a} })

---------------------------------------------------------------------------
(* The engine.  A calculator is modelled in stages: each stage is the      *)
(* record of the function's local variables after a group of statements.   *)

(* months: int = 36 *)
Months == 36

(* None, for the integer-valued month fields. *)
None == -1

Max(a, b) == IF a >= b THEN a ELSE b

(* self.revenue_share: the literals 0.03, 0.93 and 0.07 are the floats *)
(* nearest to 3/100, 93/100 and 7/100.                                 *)
revenue_share ==
    [aggregator |-> FDiv(FromInt(3), FromInt(100)),
     fleet      |-> FDiv(FromInt(93), FromInt(100)),
     app        |-> FDiv(FromInt(7), FromInt(100))]

calculate_base_revenue(avg_ticket_size, rides_per_day, working_days, utilization_rate, num_drivers) ==
    FMul(FMul(FromInt(avg_ticket_size),
              FDiv(FMul(FMul(FromInt(rides_per_day), FromInt(working_days)),
                        FromInt(utilization_rate)),
                   FromInt(100))),
         FromInt(num_drivers))

(* Mutant of cumulative_loop: an iteration appends the running total before *)
(* it adds the month's profit.                                              *)
RECURSIVE cumulative_loop_append_first(_, _, _)
cumulative_loop_append_first(cumulative, monthly_profit, n) ==
    IF n = 0 THEN <<>>
    ELSE IF n = 1 THEN <<cumulative>>
    ELSE Only({ first \o cumulative_loop_append_first(
                             FAdd(first[Len(first)], monthly_profit), monthly_profit,
                             n - (n \div 2)) :
                first \in {cumulative_loop_append_first(cumulative, monthly_profit, n \div 2)} })

(* Mutant of cumulative_loop: the month's profit is subtracted. *)
RECURSIVE cumulative_loop_subtract(_, _, _)
cumulative_loop_subtract(cumulative, monthly_profit, n) ==
    IF n = 0 THEN <<>>
    ELSE IF n = 1 THEN <<FSub(cumulative, monthly_profit)>>
    ELSE Only({ first \o cumulative_loop_subtract(first[Len(first)], monthly_profit,
                                                  n - (n \div 2)) :
                first \in {cumulative_loop_subtract(cumulative, monthly_profit, n \div 2)} })

(* The entries that n iterations of the loop "cumulative += monthly_profit; *)
(* append(cumulative)" append: one iteration appends the sum, and n > 1     *)
(* iterations are the first n \div 2 followed by the others, which start    *)
(* from the last entry of the first.                                        *)
RECURSIVE cumulative_loop(_, _, _)
cumulative_loop(cumulative, monthly_profit, n) ==
    IF n = 0 THEN <<>>
    ELSE IF n = 1 THEN <<FAdd(cumulative, monthly_profit)>>
    ELSE Only({ first \o cumulative_loop(first[Len(first)], monthly_profit, n - (n \div 2)) :
                first \in {cumulative_loop(cumulative, monthly_profit, n \div 2)} })

calculate_monthly_projections(monthly_profit, monthly_costs, monthly_revenue, monthly_turnover, num_drivers, initial_investment, months) ==
    [month             |-> [i \in 1..months |-> i],
     total_turnover    |-> [i \in 1..months |-> monthly_turnover],
     net_revenue       |-> [i \in 1..months |-> monthly_revenue],
     total_costs       |-> [i \in 1..months |-> monthly_costs],
     gross_profit      |-> [i \in 1..months |-> monthly_profit],
     profit_per_driver |-> Only({ [i \in 1..months |-> ppd] :
                                  ppd \in {FDiv(monthly_profit, FromInt(Max(num_drivers, 1)))} }),
     cumulative_profit |-> cumulative_loop(FNeg(initial_investment), monthly_profit, months)]

(* aggregator: base_revenue and net_revenue *)
agg_revenue(p) ==
    Only({ [base_revenue |-> b, net_revenue |-> FMul(b, revenue_share.aggregator)] :
           b \in {calculate_base_revenue(p.avg_ticket_size, p.rides_per_day,
                      p.working_days, p.utilization_rate, p.num_agg_drivers)} })

(* Mutant of agg_monthly_acquisition_cost: without churn the whole cost is *)
(* charged every month.                                                   *)
agg_monthly_acquisition_cost_unamortized(p) ==
    IF p.driver_churn_rate > 0
    THEN FDiv(FMul(FromInt(p.agg_driver_acquisition_cost), FromInt(p.num_agg_drivers)),
              FDiv(FromInt(100), FromInt(p.driver_churn_rate)))
    ELSE FMul(FromInt(p.agg_driver_acquisition_cost), FromInt(p.num_agg_drivers))

(* aggregator: driver acquisition cost amortized over the expected tenure *)
agg_monthly_acquisition_cost(p) ==
    IF p.driver_churn_rate > 0
    THEN FDiv(FMul(FromInt(p.agg_driver_acquisition_cost), FromInt(p.num_agg_drivers)),
              FDiv(FromInt(100), FromInt(p.driver_churn_rate)))
    ELSE Zero

(* aggregator: the cost lines before tax *)
agg_costs(p) ==
    agg_revenue(p) @@
    [monthly_acquisition_cost |-> agg_monthly_acquisition_cost(p),
     driver_salaries          |-> Zero,
     ops_salary               |-> FromInt(p.agg_ops_salary),
     fixed_costs              |-> FromInt(p.fixed_costs)]

agg_profit_before_tax(p) ==
    Only({ v @@ [profit_before_tax |->
                    FSub(v.net_revenue,
                         FAdd(FAdd(FAdd(v.monthly_acquisition_cost, v.driver_salaries),
                                   v.ops_salary), v.fixed_costs))] :
           v \in {agg_costs(p)} })

(* Mutant of agg_tax_amount: no floor at 0. *)
agg_tax_amount_unfloored(profit_before_tax, tax_rate) ==
    FDiv(FMul(profit_before_tax, FromInt(tax_rate)), FromInt(100))

(* aggregator: max(0, profit_before_tax * tax_rate / 100) *)
agg_tax_amount(profit_before_tax, tax_rate) ==
    Only({ IF FPos(t) THEN t ELSE Zero :
           t \in {FDiv(FMul(profit_before_tax, FromInt(tax_rate)), FromInt(100))} })

agg_tax(p) ==
    Only({ v @@ [tax_amount |-> agg_tax_amount(v.profit_before_tax, p.tax_rate)] :
           v \in {agg_profit_before_tax(p)} })

agg_total_costs(monthly_acquisition_cost, driver_salaries, ops_salary, fixed_costs, tax_amount) ==
    FAdd(FAdd(FAdd(FAdd(monthly_acquisition_cost, driver_salaries),
                   ops_salary), fixed_costs), tax_amount)

agg_totals(p) ==
    Only({ v @@ [total_costs |->
                    agg_total_costs(v.monthly_acquisition_cost, v.driver_salaries,
                                    v.ops_salary, v.fixed_costs, v.tax_amount)] :
           v \in {agg_tax(p)} })

agg_profit(p) ==
    Only({ v @@ [gross_profit |-> FSub(v.net_revenue, v.total_costs)] :
           v \in {agg_totals(p)} })

(* aggregator: the break-even branch on gross_profit *)
(* Mutant of agg_break_even_rides: the costs are divided by the whole ticket *)
(* instead of the aggregator's share of it.                                 *)
agg_break_even_rides_whole_ticket(gross_profit, total_costs, avg_ticket_size) ==
    IF ~FPos(gross_profit) THEN Inf
    ELSE FDiv(total_costs, FromInt(avg_ticket_size))

agg_break_even_rides(gross_profit, total_costs, avg_ticket_size) ==
    IF ~FPos(gross_profit) THEN Inf
    ELSE FDiv(total_costs, FMul(FromInt(avg_ticket_size), revenue_share.aggregator))

(* Mutant of agg_break_even_month: 1 whatever the profit. *)
agg_break_even_month_always_one(gross_profit) == 1

agg_break_even_month(gross_profit) ==
    IF ~FPos(gross_profit) THEN None ELSE 1

(* Mutant of agg_total_3yr_profit: one month short. *)
agg_total_35_months(gross_profit) == FMul(gross_profit, FromInt(35))

agg_total_3yr_profit(gross_profit) == FMul(gross_profit, FromInt(36))

calculate_aggregator_model(p) ==
    Only({ [total_turnover      |-> v.base_revenue,
            net_revenue         |-> v.net_revenue,
            total_costs         |-> v.total_costs,
            gross_profit        |-> v.gross_profit,
            profit_per_driver   |-> FDiv(v.gross_profit, FromInt(Max(p.num_agg_drivers, 1))),
            break_even_rides    |-> agg_break_even_rides(v.gross_profit, v.total_costs,
                                                         p.avg_ticket_size),
            break_even_month    |-> agg_break_even_month(v.gross_profit),
            initial_investment  |-> Zero,
            roi_percentage      |-> FMul(FDiv(agg_total_3yr_profit(v.gross_profit),
                                              FromInt(1)), FromInt(100)),
            total_3yr_profit    |-> agg_total_3yr_profit(v.gross_profit),
            ev_payback_months   |-> 0,
            cost_breakdown      |->
                << [label |-> "Driver Salaries", amount |-> v.driver_salaries],
                   [label |-> "Driver Acquisition (Monthly)",
                    amount |-> v.monthly_acquisition_cost],
                   [label |-> "Ops Team Salary", amount |-> v.ops_salary],
                   [label |-> "Fixed Costs", amount |-> v.fixed_costs],
                   [label |-> "Taxes", amount |-> v.tax_amount] >>,
            monthly_projections |->
                calculate_monthly_projections(v.gross_profit, v.total_costs,
                    v.net_revenue, v.base_revenue, p.num_agg_drivers, Zero, Months)] :
           v \in {agg_profit(p)} })

(* fleet: base_revenue and net_revenue *)
fleet_revenue(p) ==
    Only({ [base_revenue |-> b, net_revenue |-> FMul(b, revenue_share.fleet)] :
           b \in {calculate_base_revenue(p.avg_ticket_size, p.rides_per_day,
                      p.working_days, p.utilization_rate, p.num_fleet_drivers)} })

(* fleet: driver acquisition cost amortized over the expected tenure *)
fleet_monthly_acquisition_cost(p) ==
    IF p.driver_churn_rate > 0
    THEN FDiv(FMul(FromInt(p.fleet_driver_acquisition_cost), FromInt(p.num_fleet_drivers)),
              FDiv(FromInt(100), FromInt(p.driver_churn_rate)))
    ELSE Zero

(* fleet: the cost lines before tax, and the one-time EV investment *)
fleet_costs(p) ==
    fleet_revenue(p) @@
    [monthly_acquisition_cost |-> fleet_monthly_acquisition_cost(p),
     driver_salaries          |-> FMul(FromInt(p.driver_salary), FromInt(p.num_fleet_drivers)),
     initial_ev_investment    |-> FMul(FromInt(p.ev_cost), FromInt(p.num_fleet_drivers)),
     maintenance_costs        |-> FMul(FromInt(p.ev_maintenance), FromInt(p.num_fleet_drivers)),
     fuel_costs               |-> FMul(FMul(FromInt(p.ev_fuel_cost), FromInt(p.num_fleet_drivers)),
                                       FDiv(FromInt(p.utilization_rate), FromInt(100))),
     fixed_costs              |-> FromInt(p.fixed_costs)]

fleet_profit_before_tax(p) ==
    Only({ v @@ [profit_before_tax |->
                    FSub(v.net_revenue,
                         FAdd(FAdd(FAdd(FAdd(v.monthly_acquisition_cost, v.driver_salaries),
                                        v.maintenance_costs), v.fuel_costs), v.fixed_costs))] :
           v \in {fleet_costs(p)} })

(* fleet: max(0, profit_before_tax * tax_rate / 100) *)
fleet_tax_amount(profit_before_tax, tax_rate) ==
    Only({ IF FPos(t) THEN t ELSE Zero :
           t \in {FDiv(FMul(profit_before_tax, FromInt(tax_rate)), FromInt(100))} })

fleet_tax(p) ==
    Only({ v @@ [tax_amount |-> fleet_tax_amount(v.profit_before_tax, p.tax_rate)] :
           v \in {fleet_profit_before_tax(p)} })

(* Mutant of fleet_total_monthly_costs: the tax amount is left out. *)
fleet_total_monthly_costs_no_tax(monthly_acquisition_cost, driver_salaries, maintenance_costs, fuel_costs, fixed_costs, tax_amount) ==
    FAdd(FAdd(FAdd(FAdd(monthly_acquisition_cost, driver_salaries),
                   maintenance_costs), fuel_costs), fixed_costs)

fleet_total_monthly_costs(monthly_acquisition_cost, driver_salaries, maintenance_costs, fuel_costs, fixed_costs, tax_amount) ==
    FAdd(FAdd(FAdd(FAdd(FAdd(monthly_acquisition_cost, driver_salaries),
                        maintenance_costs), fuel_costs), fixed_costs), tax_amount)

fleet_totals(p) ==
    Only({ v @@ [total_monthly_costs |->
                    fleet_total_monthly_costs(v.monthly_acquisition_cost, v.driver_salaries,
                        v.maintenance_costs, v.fuel_costs, v.fixed_costs, v.tax_amount)] :
           v \in {fleet_tax(p)} })

fleet_profit(p) ==
    Only({ v @@ [gross_profit |-> FSub(v.net_revenue, v.total_monthly_costs)] :
           v \in {fleet_totals(p)} })

(* fleet: the estimate int(np.ceil(investment / contribution)) + 1, held in *)
(* the local break_even_month                                               *)
fleet_break_even_month_estimate(initial_ev_investment, monthly_contribution) ==
    IF ~FPos(monthly_contribution) THEN None
    ELSE Ceil(FDiv(initial_ev_investment, monthly_contribution)) + 1

fleet_break_even_rides(gross_profit, total_monthly_costs, contribution_per_ride) ==
    IF ~FPos(gross_profit) THEN Inf
    ELSE FDiv(total_monthly_costs, contribution_per_ride)

fleet_projections(p) ==
    Only({ v @@ [monthly_projections |->
                    calculate_monthly_projections(v.gross_profit, v.total_monthly_costs,
                        v.net_revenue, v.base_revenue, p.num_fleet_drivers,
                        v.initial_ev_investment, Months)] :
           v \in {fleet_profit(p)} })

(* The loop "for i, profit in enumerate(cumulative_profits)": scans from *)
(* index i and stops at the first profit >= 0.                           *)
RECURSIVE break_even_scan(_, _)
break_even_scan(cumulative_profits, i) ==
    IF i > Len(cumulative_profits) THEN None
    ELSE IF cumulative_profits[i].m >= 0 THEN i
    ELSE break_even_scan(cumulative_profits, i + 1)

break_even_month_actual(cumulative_profits) == break_even_scan(cumulative_profits, 1)

(* Mutant of fleet_returned_break_even_month: the estimate is returned. *)
fleet_returned_estimate(break_even_month, actual) == break_even_month

(* The break_even_month and ev_payback_months arguments of the returned *)
(* BusinessMetrics.                                                     *)
fleet_returned_break_even_month(break_even_month, actual) == actual

(* Mutant of fleet_total_3yr_profit: the first entry, not the last. *)
fleet_total_first_month(cumulative_profits) == cumulative_profits[1]

fleet_total_3yr_profit(cumulative_profits) == cumulative_profits[Len(cumulative_profits)]

fleet_roi_percentage(total_3yr_profit, initial_ev_investment) ==
    IF FPos(initial_ev_investment)
    THEN FMul(FDiv(total_3yr_profit, initial_ev_investment), FromInt(100))
    ELSE Zero

calculate_fleet_model(p) ==
    Only({ [total_turnover      |-> v.base_revenue,
            net_revenue         |-> v.net_revenue,
            total_costs         |-> v.total_monthly_costs,
            gross_profit        |-> v.gross_profit,
            profit_per_driver   |-> FDiv(v.gross_profit, FromInt(Max(p.num_fleet_drivers, 1))),
            break_even_rides    |->
                fleet_break_even_rides(v.gross_profit, v.total_monthly_costs,
                    FMul(FromInt(p.avg_ticket_size), revenue_share.fleet)),
            break_even_month    |->
                fleet_returned_break_even_month(
                    fleet_break_even_month_estimate(v.initial_ev_investment, v.gross_profit),
                    break_even_month_actual(v.monthly_projections.cumulative_profit)),
            initial_investment  |-> v.initial_ev_investment,
            roi_percentage      |->
                fleet_roi_percentage(
                    fleet_total_3yr_profit(v.monthly_projections.cumulative_profit),
                    v.initial_ev_investment),
            total_3yr_profit    |->
                fleet_total_3yr_profit(v.monthly_projections.cumulative_profit),
            ev_payback_months   |->
                fleet_returned_break_even_month(
                    fleet_break_even_month_estimate(v.initial_ev_investment, v.gross_profit),
                    break_even_month_actual(v.monthly_projections.cumulative_profit)),
            cost_breakdown      |->
                << [label |-> "Driver Salaries", amount |-> v.driver_salaries],
                   [label |-> "Driver Acquisition (Monthly)",
                    amount |-> v.monthly_acquisition_cost],
                   [label |-> "EV Investment (One-time)", amount |-> v.initial_ev_investment],
                   [label |-> "Maintenance", amount |-> v.maintenance_costs],
                   [label |-> "Fuel/Mileage", amount |-> v.fuel_costs],
                   [label |-> "Fixed Costs", amount |-> v.fixed_costs],
                   [label |-> "Taxes", amount |-> v.tax_amount] >>,
            monthly_projections |-> v.monthly_projections] :
           v \in {fleet_projections(p)} })

---------------------------------------------------------------------------
(* The script: it reads the widgets into params, calls both calculators    *)
(* and renders; every widget change reruns it from the top.                *)

VARIABLES params, aggregator_metrics, fleet_metrics, pc, previous_fleet_metrics

vars == <<params, aggregator_metrics, fleet_metrics, pc, previous_fleet_metrics>>

(* A metrics variable the current run has not assigned yet. *)
Unset ==
    [total_turnover |-> Zero, net_revenue |-> Zero, total_costs |-> Zero,
     gross_profit |-> Zero, profit_per_driver |-> Zero, break_even_rides |-> Zero,
     break_even_month |-> None, initial_investment |-> Zero, roi_percentage |-> Zero,
     total_3yr_profit |-> Zero, ev_payback_months |-> 0, cost_breakdown |-> <<>>,
     monthly_projections |-> calculate_monthly_projections(Zero, Zero, Zero, Zero, 0, Zero, 0)]

(* The widget values of a run. *)
Bundles ==
    [avg_ticket_size               : {1, 80},
     rides_per_day                 : {20},
     working_days                  : {26},
     utilization_rate              : {95, 100},
     driver_salary                 : {0, 25600},
     num_agg_drivers               : 0..MaxDrivers,
     agg_driver_acquisition_cost   : {200},
     agg_ops_salary                : {0, 750},
     driver_churn_rate             : {0, 10},
     num_fleet_drivers             : 0..MaxDrivers,
     fleet_driver_acquisition_cost : {5000},
     ev_cost                       : {0, 160000, 640000},
     ev_maintenance                : {1500},
     ev_fuel_cost                  : {4000},
     tax_rate                      : {0, 18},
     fixed_costs                   : {0, 500}]

Init ==
    /\ params \in Bundles
    /\ aggregator_metrics = Unset
    /\ fleet_metrics = Unset
    /\ previous_fleet_metrics = Unset
    /\ pc = "calculate_aggregator_model"

CalculateAggregator ==
    /\ pc = "calculate_aggregator_model"
    /\ aggregator_metrics' = calculate_aggregator_model(params)
    /\ pc' = "calculate_fleet_model"
    /\ UNCHANGED <<params, fleet_metrics, previous_fleet_metrics>>

CalculateFleet ==
    /\ pc = "calculate_fleet_model"
    /\ fleet_metrics' = calculate_fleet_model(params)
    /\ pc' = "render"
    /\ UNCHANGED <<params, aggregator_metrics, previous_fleet_metrics>>

Next == CalculateAggregator \/ CalculateFleet

Spec == Init /\ [][Next]_vars

(* The widget values of the runs of a session in which the user edits the *)
(* fleet-side widgets and leaves the others alone.                        *)
RerunBundles ==
    [avg_ticket_size               : {80},
     rides_per_day                 : {20},
     working_days                  : {26},
     utilization_rate              : {95, 100},
     driver_salary                 : {0, 25600},
     num_agg_drivers               : {1},
     agg_driver_acquisition_cost   : {200},
     agg_ops_salary                : {750},
     driver_churn_rate             : {10},
     num_fleet_drivers             : 0..MaxDrivers,
     fleet_driver_acquisition_cost : {5000},
     ev_cost                       : {0, 160000},
     ev_maintenance                : {1500},
     ev_fuel_cost                  : {4000},
     tax_rate                      : {18},
     fixed_costs                   : {0, 500}]

InitRerun ==
    /\ params \in RerunBundles
    /\ aggregator_metrics = Unset
    /\ fleet_metrics = Unset
    /\ previous_fleet_metrics = Unset
    /\ pc = "calculate_aggregator_model"

(* A widget change: the script runs again from the top with the new      *)
(* values; previous_fleet_metrics remembers what the last run rendered.  *)
Rerun ==
    /\ pc = "render"
    /\ params' \in RerunBundles
    /\ previous_fleet_metrics' = fleet_metrics
    /\ aggregator_metrics' = Unset
    /\ fleet_metrics' = Unset
    /\ pc' = "calculate_aggregator_model"

NextRerun == CalculateAggregator \/ CalculateFleet \/ Rerun

SpecRerun == InitRerun /\ [][NextRerun]_vars

(* The widget values of runs around the point where the revenue just covers *)
(* the monthly costs: ticket sizes and fixed costs that leave a gross       *)
(* profit of a fraction of a rupee, next to clearly profitable and clearly  *)
(* loss-making ones.                                                        *)
BreakEvenBundles ==
    [avg_ticket_size               : {1, 17, 80},
     rides_per_day                 : {20},
     working_days                  : {26},
     utilization_rate              : {95, 100},
     driver_salary                 : {0, 25600},
     num_agg_drivers               : 0..MaxDrivers,
     agg_driver_acquisition_cost   : {200},
     agg_ops_salary                : {0, 750},
     driver_churn_rate             : {0, 10},
     num_fleet_drivers             : 0..MaxDrivers,
     fleet_driver_acquisition_cost : {5000},
     ev_cost                       : {160000},
     ev_maintenance                : {1500},
     ev_fuel_cost                  : {4000},
     tax_rate                      : {0, 18},
     fixed_costs                   : {0, 265, 530}]

InitBreakEven ==
    /\ params \in BreakEvenBundles
    /\ aggregator_metrics = Unset
    /\ fleet_metrics = Unset
    /\ previous_fleet_metrics = Unset
    /\ pc = "calculate_aggregator_model"

SpecBreakEven == InitBreakEven /\ [][Next]_vars

---------------------------------------------------------------------------
(* Properties.                                                             *)

AggDone == pc \in {"calculate_fleet_model", "render"}
FleetDone == pc = "render"

FAbs(a) == IF a.m < 0 THEN FNeg(a) ELSE a

(* The amounts of a cost breakdown, in insertion order, without the lines *)
(* whose label is in skip.                                                 *)
Lines(cost_breakdown, skip) ==
    SelectSeq(cost_breakdown, LAMBDA l : l.label \notin skip)

(* Left-to-right float sum acc + seq[lo] + ... + seq[hi], each partial sum *)
(* rounded before the next term is added.                                 *)
RECURSIVE SumSeq(_, _, _, _)
SumSeq(seq, lo, hi, acc) ==
    IF lo > hi THEN acc
    ELSE IF lo = hi THEN FAdd(acc, seq[lo])
    ELSE Only({ SumSeq(seq, ((lo + hi) \div 2) + 1, hi, left) :
                left \in {SumSeq(seq, lo, (lo + hi) \div 2, acc)} })

(* Left-to-right float sum of the amounts of a sequence of cost lines. *)
SumLines(lines) ==
    Only({ SumSeq(amounts, 1, Len(amounts), Zero) :
           amounts \in {[i \in 1..Len(lines) |-> lines[i].amount]} })

Line(cost_breakdown, label) ==
    cost_breakdown[CHOOSE i \in DOMAIN cost_breakdown : cost_breakdown[i].label = label].amount

OneTime == {"EV Investment (One-time)"}

RecurringCosts(m) == SumLines(Lines(m.cost_breakdown, OneTime))

PreTaxProfit(m) ==
    FSub(m.net_revenue, SumLines(Lines(m.cost_breakdown, OneTime \cup {"Taxes"})))

(* C1: in both models gross_profit is exactly net_revenue - total_costs,   *)
(* and total_costs is the sum of the recurring monthly cost lines and the  *)
(* tax line, the one-time EV investment left out.                          *)
GrossProfitIdentity(m) ==
    /\ m.gross_profit = FSub(m.net_revenue, m.total_costs)
    /\ m.total_costs = RecurringCosts(m)

C1_GrossProfit ==
    /\ AggDone => GrossProfitIdentity(aggregator_metrics)
    /\ FleetDone => GrossProfitIdentity(fleet_metrics)

C1_Witness ==
    /\ FleetDone
    /\ FPos(fleet_metrics.initial_investment)
    /\ FPos(Line(fleet_metrics.cost_breakdown, "Taxes"))
    /\ FPos(Line(aggregator_metrics.cost_breakdown, "Taxes"))
    /\ FPos(fleet_metrics.gross_profit)

(* C2: in both models the tax amount is never negative, and it is 0        *)
(* whenever the pre-tax profit is <= 0.                                    *)
TaxFloor(m) ==
    /\ Line(m.cost_breakdown, "Taxes").m >= 0
    /\ PreTaxProfit(m).m <= 0 => Line(m.cost_breakdown, "Taxes") = Zero

C2_TaxFloor ==
    /\ AggDone => TaxFloor(aggregator_metrics)
    /\ FleetDone => TaxFloor(fleet_metrics)

C2_Witness ==
    /\ FleetDone
    /\ params.tax_rate > 0
    /\ PreTaxProfit(aggregator_metrics).m < 0
    /\ Line(aggregator_metrics.cost_breakdown, "Taxes") = Zero
    /\ PreTaxProfit(fleet_metrics).m < 0
    /\ Line(fleet_metrics.cost_breakdown, "Taxes") = Zero

(* C3: the cumulative_profit sequence has Months entries, the first is     *)
(* monthly_profit - initial_investment and each later one is its           *)
(* predecessor plus monthly_profit.                                        *)
CumulativeLaw(m) ==
    LET c == m.monthly_projections.cumulative_profit
    IN  /\ Len(c) = Months
        /\ c[1] = FSub(m.gross_profit, m.initial_investment)
        /\ \A i \in 2..Months : c[i] = FAdd(c[i - 1], m.gross_profit)

C3_Cumulative ==
    /\ AggDone => CumulativeLaw(aggregator_metrics)
    /\ FleetDone => CumulativeLaw(fleet_metrics)

C3_Witness ==
    /\ FleetDone
    /\ FPos(fleet_metrics.initial_investment)
    /\ FPos(fleet_metrics.gross_profit)
    /\ aggregator_metrics.gross_profit.m < 0

(* The least month of 1..Months whose cumulative profit is >= 0, or None. *)
FirstNonNegativeMonth(m) ==
    LET c    == m.monthly_projections.cumulative_profit
        good == {i \in 1..Months : c[i].m >= 0}
    IN  IF good = {} THEN None
        ELSE CHOOSE i \in good : \A j \in good : i <= j

FleetEstimate(m) ==
    fleet_break_even_month_estimate(m.initial_investment, m.gross_profit)

(* C4: the fleet model returns, as break_even_month (and as the payback    *)
(* months), the least month of 1..36 whose cumulative profit is >= 0, and  *)
(* None exactly when there is no such month; where the estimate            *)
(* ceil(investment / gross_profit) + 1 differs from it, the estimate is    *)
(* not what is returned.                                                   *)
C4_BreakEvenScan ==
    FleetDone =>
        /\ fleet_metrics.break_even_month = FirstNonNegativeMonth(fleet_metrics)
        /\ fleet_metrics.ev_payback_months = FirstNonNegativeMonth(fleet_metrics)
        /\ FleetEstimate(fleet_metrics) # FirstNonNegativeMonth(fleet_metrics)
              => /\ fleet_metrics.break_even_month # FleetEstimate(fleet_metrics)
                 /\ fleet_metrics.ev_payback_months # FleetEstimate(fleet_metrics)

C4_Witness ==
    /\ FleetDone
    /\ fleet_metrics.break_even_month \in 2..Months
    /\ FleetEstimate(fleet_metrics) = fleet_metrics.break_even_month + 1

(* C5, as claimed: whenever the fleet model's gross_profit is <= 0, its    *)
(* break_even_month is None and its break_even_rides is infinite.          *)
C5_NoBreakEvenWithoutProfit ==
    (FleetDone /\ fleet_metrics.gross_profit.m <= 0)
        => /\ fleet_metrics.break_even_month = None
           /\ fleet_metrics.break_even_rides = Inf

C7_Monotone ==
    (/\ FleetDone
     /\ previous_fleet_metrics # Unset
     /\ previous_fleet_metrics.initial_investment = fleet_metrics.initial_investment
     /\ FLe(previous_fleet_metrics.gross_profit, fleet_metrics.gross_profit)
     /\ previous_fleet_metrics.break_even_month # None)
        => /\ fleet_metrics.break_even_month # None
           /\ fleet_metrics.break_even_month <= previous_fleet_metrics.break_even_month

C7_Witness ==
    /\ FleetDone
    /\ previous_fleet_metrics # Unset
    /\ previous_fleet_metrics.initial_investment = fleet_metrics.initial_investment
    /\ FPos(fleet_metrics.initial_investment)
    /\ FLt(previous_fleet_metrics.gross_profit, fleet_metrics.gross_profit)
    /\ previous_fleet_metrics.break_even_month # None
    /\ fleet_metrics.break_even_month # None
    /\ fleet_metrics.break_even_month < previous_fleet_metrics.break_even_month

(* The 36 per-month gross_profit entries of a model, summed left to right. *)
ProjectedProfitSum(m) == SumSeq(m.monthly_projections.gross_profit, 1, Months, Zero)

(* |a - b| <= 36 * 2^(-MantBits) * |b| *)
WithinRounding(a, b) ==
    LET d == FAbs(FSub(a, b))
    IN  FLe([m |-> d.m, e |-> IF d.m = 0 THEN 0 ELSE d.e + MantBits],
            FMul(FromInt(36), FAbs(b)))

(* C8, as claimed: the sum of the aggregator's 36 gross_profit entries is  *)
(* exactly its total_3yr_profit and exactly the last cumulative_profit     *)
(* entry.                                                                  *)
C8_SumIsTotalExactly ==
    AggDone =>
        \A sum \in {ProjectedProfitSum(aggregator_metrics)} :
            /\ sum = aggregator_metrics.total_3yr_profit
            /\ sum = aggregator_metrics.monthly_projections.cumulative_profit[Months]

(* C8, amended: the sum of the aggregator's 36 gross_profit entries is     *)
(* exactly the last cumulative_profit entry; total_3yr_profit is the one   *)
(* product gross_profit * 36, which the sum equals up to rounding (within  *)
(* 36 * 2^(-MantBits) of it, relatively); the fleet's total_3yr_profit is  *)
(* its last cumulative_profit entry.                                       *)
C8_SumIsTotalUpToRounding ==
    /\ AggDone =>
          \A sum \in {ProjectedProfitSum(aggregator_metrics)} :
              /\ sum = aggregator_metrics.monthly_projections.cumulative_profit[Months]
              /\ aggregator_metrics.total_3yr_profit
                    = FMul(aggregator_metrics.gross_profit, FromInt(36))
              /\ WithinRounding(sum, aggregator_metrics.total_3yr_profit)
    /\ FleetDone =>
          fleet_metrics.total_3yr_profit
             = fleet_metrics.monthly_projections.cumulative_profit[Months]

C8_Witness ==
    /\ FleetDone
    /\ FPos(aggregator_metrics.gross_profit)
    /\ ProjectedProfitSum(aggregator_metrics) # aggregator_metrics.total_3yr_profit
    /\ FPos(fleet_metrics.initial_investment)
    /\ ProjectedProfitSum(fleet_metrics) # fleet_metrics.total_3yr_profit

AcquisitionLine == "Driver Acquisition (Monthly)"

(* The acquisition line and the total of a model whose bundle has the *)
(* given cost per driver and driver count.                            *)
AcquisitionLaw(m, cost_per_driver, num_drivers) ==
    /\ params.driver_churn_rate = 0
          => /\ Line(m.cost_breakdown, AcquisitionLine) = Zero
             /\ m.total_costs
                   = SumLines(Lines(m.cost_breakdown, OneTime \cup {AcquisitionLine}))
    /\ params.driver_churn_rate > 0
          => Line(m.cost_breakdown, AcquisitionLine)
                = FDiv(FMul(FromInt(cost_per_driver), FromInt(num_drivers)),
                       FDiv(FromInt(100), FromInt(params.driver_churn_rate)))

(* C9: with driver_churn_rate = 0 both models report an acquisition line   *)
(* of exactly 0 that adds nothing to total_costs, whatever the cost per    *)
(* driver and the driver count; with driver_churn_rate > 0 the line is     *)
(* cost per driver * drivers / (100 / driver_churn_rate).                  *)
C9_Acquisition ==
    /\ AggDone => AcquisitionLaw(aggregator_metrics,
                      params.agg_driver_acquisition_cost, params.num_agg_drivers)
    /\ FleetDone => AcquisitionLaw(fleet_metrics,
                      params.fleet_driver_acquisition_cost, params.num_fleet_drivers)

C9_Witness ==
    /\ FleetDone
    /\ params.driver_churn_rate = 0
    /\ params.agg_driver_acquisition_cost > 0
    /\ params.num_agg_drivers > 0
    /\ params.fleet_driver_acquisition_cost > 0
    /\ params.num_fleet_drivers > 0
    /\ Line(aggregator_metrics.cost_breakdown, AcquisitionLine) = Zero
    /\ Line(fleet_metrics.cost_breakdown, AcquisitionLine) = Zero

(* C10: the fleet model has a break-even month exactly when its            *)
(* total_3yr_profit is >= 0, and from the break-even month to month 36 the *)
(* cumulative profit is >= 0.                                              *)
C10_BreakEvenIffTotal ==
    FleetDone =>
        /\ (fleet_metrics.break_even_month # None) <=> (fleet_metrics.total_3yr_profit.m >= 0)
        /\ fleet_metrics.break_even_month # None
              => \A i \in fleet_metrics.break_even_month..Months :
                    fleet_metrics.monthly_projections.cumulative_profit[i].m >= 0

C10_Witness ==
    /\ FleetDone
    /\ fleet_metrics.break_even_month \in 2..(Months - 1)
    /\ fleet_metrics.total_3yr_profit.m > 0
    /\ fleet_metrics.monthly_projections.cumulative_profit[1].m < 0

(* |a - b| <= k * 2^(-MantBits) * |b| *)
WithinUlps(a, b, k) ==
    LET d == FAbs(FSub(a, b))
    IN  FLe([m |-> d.m, e |-> IF d.m = 0 THEN 0 ELSE d.e + MantBits],
            FMul(FromInt(k), FAbs(b)))

(* The modelled monthly ride count of num_drivers drivers:                *)
(* rides_per_day x working_days x (utilization_rate / 100) x num_drivers. *)
ModelledRides(num_drivers) ==
    FMul(FMul(FMul(FromInt(params.rides_per_day), FromInt(params.working_days)),
              FDiv(FromInt(params.utilization_rate), FromInt(100))),
         FromInt(num_drivers))

(* break_even_rides x avg_ticket_size x share: what that many rides bring in. *)
CoveredCosts(m, share) ==
    FMul(FMul(m.break_even_rides, FromInt(params.avg_ticket_size)), share)

SentinelIffNoProfit(m) ==
    (m.break_even_rides = Inf) <=> ~FPos(m.gross_profit)

BreakEvenRidesExact(m, share, num_drivers) ==
    /\ SentinelIffNoProfit(m)
    /\ FPos(m.gross_profit) =>
          /\ m.break_even_rides # Inf
          /\ FLe(Zero, m.break_even_rides)
          /\ CoveredCosts(m, share) = m.total_costs
          /\ FLt(m.break_even_rides, ModelledRides(num_drivers))

BreakEvenRidesUpToRounding(m, share, num_drivers) ==
    /\ SentinelIffNoProfit(m)
    /\ FPos(m.gross_profit) =>
          /\ m.break_even_rides # Inf
          /\ FLe(Zero, m.break_even_rides)
          /\ m.break_even_rides
                = FDiv(m.total_costs, FMul(FromInt(params.avg_ticket_size), share))
          /\ WithinUlps(CoveredCosts(m, share), m.total_costs, 8)
          /\ \/ FLt(m.break_even_rides, ModelledRides(num_drivers))
             \/ WithinUlps(m.break_even_rides, ModelledRides(num_drivers), 16)

(* C11, as claimed: in both models break_even_rides is the infinite sentinel *)
(* exactly when gross_profit <= 0, and with gross_profit > 0 it is finite,   *)
(* non-negative, satisfies break_even_rides x avg_ticket_size x              *)
(* revenue_share = total_costs, and is strictly less than the modelled total *)
(* monthly ride count.                                                       *)
C11_BreakEvenRidesExact ==
    /\ AggDone => BreakEvenRidesExact(aggregator_metrics, revenue_share.aggregator,
                                      params.num_agg_drivers)
    /\ FleetDone => BreakEvenRidesExact(fleet_metrics, revenue_share.fleet,
                                        params.num_fleet_drivers)

(* C11, amended: in both models break_even_rides is the infinite sentinel    *)
(* exactly when gross_profit <= 0; with gross_profit > 0 it is finite,       *)
(* non-negative and the one quotient total_costs / (avg_ticket_size x        *)
(* revenue_share), so that break_even_rides x avg_ticket_size x              *)
(* revenue_share equals total_costs up to rounding (within 8 * 2^(-MantBits) *)
(* of it, relatively), and it is less than the modelled total monthly ride   *)
(* count or equal to it up to rounding (within 16 * 2^(-MantBits)).          *)
C11_BreakEvenRidesUpToRounding ==
    /\ AggDone => BreakEvenRidesUpToRounding(aggregator_metrics, revenue_share.aggregator,
                                             params.num_agg_drivers)
    /\ FleetDone => BreakEvenRidesUpToRounding(fleet_metrics, revenue_share.fleet,
                                               params.num_fleet_drivers)

C11_Witness ==
    /\ FleetDone
    /\ FPos(aggregator_metrics.gross_profit)
    /\ aggregator_metrics.break_even_rides # Inf
    /\ ~FLt(aggregator_metrics.break_even_rides, ModelledRides(params.num_agg_drivers))
    /\ CoveredCosts(aggregator_metrics, revenue_share.aggregator)
          # aggregator_metrics.total_costs
    /\ FPos(fleet_metrics.gross_profit)
    /\ FLt(fleet_metrics.break_even_rides, ModelledRides(params.num_fleet_drivers))

====
